---- MODULE Spec2Model ----
(***************************************************************************)
(* PyGEP: the Karva gene (karva.py) and the population container           *)
(* (population.py) as state machines.                                      *)
(*                                                                         *)
(* Python indices are 0-based; TLA+ sequences are 1-based.  Every index    *)
(* variable below keeps the Python value, and alleles[i + 1] is the        *)
(* Python alleles[i].                                                      *)
(***************************************************************************)
EXTENDS Integers, Sequences, FiniteSets, TLC

(***************************************************************************)
(* Bounds                                                                  *)
(***************************************************************************)
\* longest allele list handed to the KarvaGene constructor in SpecKarva
MaxLen == 4
\* number of gene calls in one behaviour
MaxCalls == 3
\* longest list of changes handed to derive
MaxEdits == 2
\* largest population size asked of Population.__init__
MaxSize == 3
\* number of cycle calls in one behaviour
MaxCycles == 3
MaxGenerations == 2

(***************************************************************************)
(* The symbol alphabet (supplied by the caller of the gene)                *)
(***************************************************************************)
\* function alleles: sub = lambda a, b: a - b ; inc = lambda a: a + 1
Functions == {"sub", "inc"}
\* terminal names: str alleles, resolved with getattr on the context
Names == {"x", "y"}
\* numeric constants: non-str, non-callable alleles
Numbers == {"3"}
Symbols == Functions \cup Names \cup Numbers

callable(allele) == allele \in Functions

isinstance_str(allele) == allele \in Names

co_argcount(allele) == IF allele = "sub" THEN 2 ELSE 1

\* allele(*args) for a function allele and a tuple of argument values
apply(allele, args) ==
    IF allele = "sub" THEN args[1] - args[2] ELSE args[1] + 1

\* the value of a numeric constant allele
number(allele) == 3

(***************************************************************************)
(* Context objects.  A and B are two distinct objects with equal           *)
(* attributes, x = 2 and no attribute y; C has x = 4 and y = 7.            *)
(***************************************************************************)
Contexts == {"A", "B", "C"}

hasattr(obj, name) == name = "x" \/ obj = "C"

getattr(obj, name) ==
    IF obj = "C" THEN (IF name = "x" THEN 4 ELSE 7) ELSE 2

\* the attribute dictionary of a context, for comparing contexts by value
AttrsOf(obj) == {<<n, getattr(obj, n)>> : n \in {m \in Names : hasattr(obj, m)}}

(***************************************************************************)
(* Python list slicing: s[i:j] for 0 <= i                                  *)
(***************************************************************************)
Min(a, b) == IF a < b THEN a ELSE b

Max(a, b) == IF a > b THEN a ELSE b

\* self.alleles[i:j]
getslice(s, i, j) == SubSeq(s, Min(i, Len(s)) + 1, Min(j, Len(s)))

(***************************************************************************)
(* KarvaGene._find_coding                                                  *)
(***************************************************************************)
RECURSIVE find_coding_level_one(_, _, _, _)
find_coding_level_one(alleles, index, n, next_args) ==
    IF n = 0 THEN [err |-> FALSE, index |-> index, next_args |-> next_args]
    ELSE IF index >= Len(alleles)
         THEN [err |-> TRUE, index |-> index, next_args |-> next_args]
         ELSE find_coding_level_one(alleles, index + 1, n - 1,
                  IF callable(alleles[index + 1])
                  THEN next_args + 1
                  ELSE next_args)

\* for _ in xrange(args): the inner loop, n iterations left.  Reading
\* alleles[index] past the end raises IndexError.
RECURSIVE find_coding_level(_, _, _, _)
find_coding_level(alleles, index, n, next_args) ==
    IF n = 0 THEN [err |-> FALSE, index |-> index, next_args |-> next_args]
    ELSE IF index >= Len(alleles)
         THEN [err |-> TRUE, index |-> index, next_args |-> next_args]
         ELSE find_coding_level(alleles, index + 1, n - 1,
                  IF callable(alleles[index + 1])
                  THEN next_args + co_argcount(alleles[index + 1])
                  ELSE next_args)

\* while args: the outer loop
RECURSIVE find_coding_while(_, _, _)
find_coding_while(alleles, index, args) ==
    IF args = 0 THEN [err |-> FALSE, coding |-> index - 1]
    ELSE LET r == find_coding_level(alleles, index, args, 0)
         IN  IF r.err THEN [err |-> TRUE, coding |-> 0 - 1]
             ELSE find_coding_while(alleles, r.index, r.next_args)

\* index, args = 0, 1 ... self.coding = index - 1
_find_coding(alleles) == find_coding_while(alleles, 0, 1)

(***************************************************************************)
(* KarvaGene.__call__ : the undecorated body                               *)
(***************************************************************************)
\* a slot of the evaluation list: <<>> is None, <<v>> is the value v
None == <<>>

\* _value(allele), when the attribute exists
_value(obj, allele) ==
    IF callable(allele) THEN None
    ELSE IF ~isinstance_str(allele) THEN <<number(allele)>>
    ELSE <<getattr(obj, allele)>>

\* positions (Python indices) of the terminal names obj does not define
Missing(obj, alleles) ==
    {i \in 0..(Len(alleles) - 1) :
        isinstance_str(alleles[i + 1]) /\ ~hasattr(obj, alleles[i + 1])}

SetMin(S) == CHOOSE m \in S : \A n \in S : m <= n

RECURSIVE sweep_fixed_cursor(_, _, _, _, _)
sweep_fixed_cursor(alleles, evaluation, i, index, applied) ==
    IF i < 0 THEN [err |-> "", evaluation |-> evaluation, applied |-> applied]
    ELSE IF callable(alleles[i + 1])
         THEN LET num  == co_argcount(alleles[i + 1])
                  args == SubSeq(evaluation, index - num + 1, index)
              IN  IF \E k \in 1..Len(args) : args[k] = <<>>
                  THEN [err |-> "TypeError", evaluation |-> evaluation,
                        applied |-> applied]
                  ELSE sweep_fixed_cursor(alleles,
                             [evaluation EXCEPT ![i + 1] =
                                 <<apply(alleles[i + 1],
                                         [k \in 1..num |-> args[k][1]])>>],
                             i - 1, index, applied + 1)
         ELSE sweep_fixed_cursor(alleles, evaluation, i - 1, index, applied)

\* for i in reversed(xrange(index)): the reverse sweep, at position i with
\* the cursor at index; applied counts the function applications.  A function
\* handed None, or fewer than num values, raises TypeError; with the coding
\* _find_coding sets, index - num >= 1 and neither happens.
RECURSIVE sweep(_, _, _, _, _)
sweep(alleles, evaluation, i, index, applied) ==
    IF i < 0 THEN [err |-> "", evaluation |-> evaluation, applied |-> applied]
    ELSE IF callable(alleles[i + 1])
         THEN LET num  == co_argcount(alleles[i + 1])
                  args == getslice(evaluation, Max(index - num, 0), index)
              IN  IF \/ Len(args) # num
                     \/ \E k \in 1..Len(args) : args[k] = None
                  THEN [err |-> "TypeError", evaluation |-> evaluation,
                        applied |-> applied]
                  ELSE sweep(alleles,
                             [evaluation EXCEPT ![i + 1] =
                                 <<apply(alleles[i + 1],
                                         [k \in 1..num |-> args[k][1]])>>],
                             i - 1, index - num, applied + 1)
         ELSE sweep(alleles, evaluation, i - 1, index, applied)

\* the body of __call__: evaluation = [_value(a) for a in self.alleles],
\* the sweep from index = self.coding + 1, return evaluation[0].
\* lookups counts the getattr calls made, applied the functions applied.
call_body(alleles, coding, obj) ==
    LET miss == Missing(obj, alleles)
    IN  IF miss # {}
        THEN [outcome |-> "AttributeError", value |-> 0,
              lookups |-> Cardinality({i \in 0..SetMin(miss) :
                                         isinstance_str(alleles[i + 1])}),
              applied |-> 0]
        ELSE LET evaluation == [k \in 1..Len(alleles) |-> _value(obj, alleles[k])]
                 r == sweep(alleles, evaluation, coding, coding + 1, 0)
                 n == Cardinality({k \in 1..Len(alleles) :
                                     isinstance_str(alleles[k])})
             IN  IF r.err # ""
                 THEN [outcome |-> r.err, value |-> 0,
                       lookups |-> n, applied |-> r.applied]
                 ELSE [outcome |-> "value", value |-> r.evaluation[1][1],
                       lookups |-> n, applied |-> r.applied]

(***************************************************************************)
(* State                                                                   *)
(***************************************************************************)
VARIABLES
    genes,       \* the gene objects: 1 is the constructed gene, 2 the gene
                 \* derive created; each holds alleles, head, coding and memo,
                 \* the dictionary its memo attribute refers to (0: no attribute)
    memos,       \* the memo dictionaries: sets of <<id(obj), result>>
    ctor,        \* outcome of KarvaGene.__init__
    nCalls,      \* number of gene calls made
    called,      \* history: the <<gene, obj>> pairs whose call returned a value
    lastCall,    \* what the last gene call did
    lastDerive,  \* what the derive call did
    pop,         \* outcome of Population.__init__, "" when no population is made
    size,        \* Population.size
    produced,    \* number of chromosomes cls.generate can yield
    fitness,     \* the fitness attribute of each chromosome of the population
    population,  \* Population.population, a list of chromosomes
    _next_pop,   \* Population._next_pop; 0 is the placeholder None
    age,         \* Population.__age
    nCycles,     \* number of cycle calls made
    lastCycle,   \* what the last cycle call did
    buffers,     \* which list object population and _next_pop each refer to
    lastSolve    \* what the solve call did

geneVars == <<genes, memos, ctor, nCalls, called, lastCall, lastDerive>>

popVars == <<pop, size, produced, fitness, population, _next_pop, age,
             nCycles, lastCycle, buffers, lastSolve>>

vars == <<geneVars, popVars>>

GeneIds == {1, 2}

MemoIds == {1, 2}

NoGene == [live |-> FALSE, alleles |-> <<>>, head |-> 0, coding |-> 0 - 1,
           memo |-> 0]

\* lastCall: the call's gene and obj, what it returned (outcome, value), what
\* it did (hit: served from the memo; lookups; applied) and what had happened
\* before it (again: this gene had returned a value for obj, first being that
\* value; shared: a gene holding the same memo dictionary had; twin: this gene
\* had for another object with equal attributes)
NoCall == [gene |-> 0, obj |-> "", outcome |-> "none", value |-> 0,
           hit |-> FALSE, lookups |-> 0, applied |-> 0,
           again |-> FALSE, first |-> 0, shared |-> FALSE, twin |-> FALSE]

\* lastDerive: what derive returned (outcome: "self", "new" or an exception),
\* the gene it was called on as it was then (before), the results that gene
\* had returned by then (cached), and what the changes were:
\* all equal to the alleles in place (noop), all starting past coding (tail),
\* one covering an index <= coding (touch), one covering an index <= coding
\* and differing from the alleles in place (hits); and whether the alleles
\* of the gene returned are those the changes give when each is assigned, in
\* the order given, to one copy of the alleles (inorder)
NoDerive == [outcome |-> "none", before |-> NoGene, cached |-> {},
             noop |-> FALSE, tail |-> FALSE, touch |-> FALSE,
             hits |-> FALSE, inorder |-> FALSE]

\* lastCycle: how cycle ended (outcome) and, as they were when it was
\* called, best, the population list, age and the two list objects
NoCycle == [outcome |-> "none", best |-> 0, population |-> <<>>, age |-> 0,
            buffers |-> [population |-> 0, _next_pop |-> 0]]

\* lastSolve: how solve ended, its argument and age when it was called
NoSolve == [outcome |-> "none", generations |-> 0, age |-> 0]

\* no Population exists (the gene specifications)
NoPopulation ==
    /\ pop = ""
    /\ size = 0
    /\ produced = 0
    /\ fitness = <<>>
    /\ population = <<>>
    /\ _next_pop = <<>>
    /\ age = 0
    /\ nCycles = 0
    /\ lastCycle = NoCycle
    /\ buffers = NoCycle.buffers
    /\ lastSolve = NoSolve

\* all sequences over S of a length in lens
SeqsOf(S, lens) == UNION {[1..n -> S] : n \in lens}

(***************************************************************************)
(* KarvaGene.__init__                                                      *)
(***************************************************************************)
__init__(alleles, head) ==
    LET r == _find_coding(alleles)
    IN  /\ ctor = IF r.err THEN "IndexError" ELSE "ok"
        /\ genes = [g \in GeneIds |->
                      IF g = 1
                      THEN [live |-> ~r.err, alleles |-> alleles,
                            head |-> head, coding |-> r.coding, memo |-> 0]
                      ELSE NoGene]
        /\ memos = [m \in MemoIds |-> {}]
        /\ nCalls = 0
        /\ called = {}
        /\ lastCall = NoCall
        /\ lastDerive = NoDerive
        /\ NoPopulation

(***************************************************************************)
(* pygep.util.memoize around __call__                                      *)
(***************************************************************************)
\* the dictionary a gene's memo attribute holds ({} without the attribute)
MemoOf(g) == IF genes[g].memo = 0 THEN {} ELSE memos[genes[g].memo]

\* a dictionary no gene refers to
FreshMemo == CHOOSE m \in MemoIds :
                 /\ \A g \in GeneIds : genes[g].memo # m
                 /\ \A n \in MemoIds :
                        (\A g \in GeneIds : genes[g].memo # n) => m <= n

memo_key_value(obj) == AttrsOf(obj)

\* the key memoize files a result under: the identity of the object
memo_key(obj) == obj

\* the wrapper memoize puts around the body: with the gene's dictionary memo,
\* return the result filed under obj if there is one, without running the
\* body; otherwise run the body and file what it returns.  A body that raises
\* files nothing.
memoize_never(memo, obj, body) ==
    [hit |-> FALSE, outcome |-> body.outcome, value |-> body.value,
     lookups |-> body.lookups, applied |-> body.applied,
     memo |-> IF body.outcome = "value"
              THEN {e \in memo : e[1] # memo_key(obj)}
                   \cup {<<memo_key(obj), body.value>>}
              ELSE memo]

memoize(memo, obj, body) ==
    IF \E e \in memo : e[1] = memo_key(obj)
    THEN [hit |-> TRUE, outcome |-> "value",
          value |-> (CHOOSE e \in memo : e[1] = memo_key(obj))[2],
          lookups |-> 0, applied |-> 0, memo |-> memo]
    ELSE [hit |-> FALSE, outcome |-> body.outcome, value |-> body.value,
          lookups |-> body.lookups, applied |-> body.applied,
          memo |-> IF body.outcome = "value"
                   THEN memo \cup {<<memo_key(obj), body.value>>}
                   ELSE memo]

\* gene(obj).  The memo attribute is set on the gene at its first call.
Call(g, obj) ==
    /\ genes[g].live
    /\ nCalls < MaxCalls
    /\ nCalls' = nCalls + 1
    /\ LET r == memoize(MemoOf(g), obj,
                        call_body(genes[g].alleles, genes[g].coding, obj))
           m == IF genes[g].memo = 0 THEN FreshMemo ELSE genes[g].memo
           again == \E e \in called : e[1] = g /\ e[2] = obj
       IN  /\ lastCall' =
                 [gene |-> g, obj |-> obj, outcome |-> r.outcome,
                  value |-> r.value, hit |-> r.hit, lookups |-> r.lookups,
                  applied |-> r.applied,
                  again  |-> again,
                  first  |-> IF again
                             THEN (CHOOSE e \in called :
                                       e[1] = g /\ e[2] = obj)[3]
                             ELSE 0,
                  shared |-> \E h \in GeneIds, e \in called :
                                /\ genes[h].memo # 0
                                /\ genes[h].memo = genes[g].memo
                                /\ e[1] = h /\ e[2] = obj,
                  twin   |-> \E o \in Contexts \ {obj}, e \in called :
                                /\ AttrsOf(o) = AttrsOf(obj)
                                /\ e[1] = g /\ e[2] = o]
           /\ genes' = [genes EXCEPT ![g].memo = m]
           /\ memos' = [memos EXCEPT ![m] = r.memo]
           /\ called' = IF r.outcome = "value" /\ ~again
                        THEN called \cup {<<g, obj, r.value>>} ELSE called
    /\ UNCHANGED <<ctor, lastDerive, popVars>>

(***************************************************************************)
(* KarvaGene.derive                                                        *)
(***************************************************************************)
\* new[index:index+l] = alleles
setslice(new, index, l, alleles) ==
    getslice(new, 0, index) \o alleles \o getslice(new, index + l, Len(new))

derive_step_always(self, st, change) ==
    LET index   == change.index
        alleles == change.alleles
        l       == Len(alleles)
    IN  [new  |-> IF st.new = <<>>
                  THEN getslice(self.alleles, 0, index) \o alleles
                       \o getslice(self.alleles, index + l, Len(self.alleles))
                  ELSE setslice(st.new, index, l, alleles),
         same |-> IF st.same /\ index <= self.coding THEN FALSE ELSE st.same]

derive_step_not_same(self, st, change) ==
    LET index   == change.index
        alleles == change.alleles
        l       == Len(alleles)
    IN  IF getslice(self.alleles, index, index + l) # alleles
        THEN [new  |-> IF st.new = <<>>
                       THEN getslice(self.alleles, 0, index) \o alleles
                            \o getslice(self.alleles, index + l,
                                        Len(self.alleles))
                       ELSE setslice(st.new, index, l, alleles),
              same |-> FALSE]
        ELSE st

derive_step_against_new(self, st, change) ==
    LET index   == change.index
        alleles == change.alleles
        l       == Len(alleles)
        cur     == IF st.new = <<>> THEN self.alleles ELSE st.new
    IN  IF getslice(cur, index, index + l) # alleles
        THEN [new  |-> setslice(cur, index, l, alleles),
              same |-> IF st.same /\ index <= self.coding
                       THEN FALSE ELSE st.same]
        ELSE st

derive_step_below(self, st, change) ==
    LET index   == change.index
        alleles == change.alleles
        l       == Len(alleles)
    IN  IF getslice(self.alleles, index, index + l) # alleles
        THEN [new  |-> IF st.new = <<>>
                       THEN getslice(self.alleles, 0, index) \o alleles
                            \o getslice(self.alleles, index + l,
                                        Len(self.alleles))
                       ELSE setslice(st.new, index, l, alleles),
              same |-> IF st.same /\ index < self.coding
                       THEN FALSE ELSE st.same]
        ELSE st

\* one iteration of "for index, alleles in changes", from the loop state
\* st = [new, same]; new = <<>> stands for None ("not new" holds of both)
derive_step(self, st, change) ==
    LET index   == change.index
        alleles == change.alleles
        l       == Len(alleles)
    IN  IF getslice(self.alleles, index, index + l) # alleles
        THEN [new  |-> IF st.new = <<>>
                       THEN getslice(self.alleles, 0, index) \o alleles
                            \o getslice(self.alleles, index + l,
                                        Len(self.alleles))
                       ELSE setslice(st.new, index, l, alleles),
              same |-> IF st.same /\ index <= self.coding
                       THEN FALSE ELSE st.same]
        ELSE st

RECURSIVE derive_loop(_, _, _, _)
derive_loop(self, st, changes, k) ==
    IF k > Len(changes) THEN st
    ELSE derive_loop(self, derive_step(self, st, changes[k]), changes, k + 1)

derive_in_place(self, changes) ==
    LET st == derive_loop(self, [new |-> <<>>, same |-> TRUE], changes, 1)
        r  == _find_coding(st.new)
    IN  IF st.new = <<>>
        THEN [outcome |-> "self", self |-> self, gene |-> NoGene]
        ELSE IF st.same
        THEN [outcome |-> "new", self |-> [self EXCEPT !.alleles = st.new],
              gene |-> [self EXCEPT !.alleles = st.new]]
        ELSE IF r.err
        THEN [outcome |-> "IndexError",
              self |-> [self EXCEPT !.alleles = st.new], gene |-> NoGene]
        ELSE [outcome |-> "new", self |-> [self EXCEPT !.alleles = st.new],
              gene |-> [self EXCEPT !.alleles = st.new, !.coding = r.coding,
                                    !.memo = 0]]

derive_keep_memo(self, changes) ==
    LET st == derive_loop(self, [new |-> <<>>, same |-> TRUE], changes, 1)
        r  == _find_coding(st.new)
    IN  IF st.new = <<>>
        THEN [outcome |-> "self", self |-> self, gene |-> NoGene]
        ELSE IF st.same
        THEN [outcome |-> "new", self |-> self,
              gene |-> [self EXCEPT !.alleles = st.new]]
        ELSE IF r.err
        THEN [outcome |-> "IndexError", self |-> self, gene |-> NoGene]
        ELSE [outcome |-> "new", self |-> self,
              gene |-> [self EXCEPT !.alleles = st.new, !.coding = r.coding]]

\* self.derive(changes): what it returns (outcome "self": self itself;
\* "new": the gene made by copy(self), which holds every attribute of self,
\* the memo dictionary included, until it is given its own) and what it
\* leaves of self
derive(self, changes) ==
    LET st == derive_loop(self, [new |-> <<>>, same |-> TRUE], changes, 1)
        r  == _find_coding(st.new)
    IN  IF st.new = <<>>
        THEN [outcome |-> "self", self |-> self, gene |-> NoGene]
        ELSE IF st.same
        THEN [outcome |-> "new", self |-> self,
              gene |-> [self EXCEPT !.alleles = st.new]]
        ELSE IF r.err
        THEN [outcome |-> "IndexError", self |-> self, gene |-> NoGene]
        ELSE [outcome |-> "new", self |-> self,
              gene |-> [self EXCEPT !.alleles = st.new, !.coding = r.coding,
                                    !.memo = 0]]

\* what the caller of derive knows of a change: whether its replacement equals
\* the alleles self holds at [index, index + len(replacement)), and whether
\* it covers an index <= coding
IsNoop(self, change) ==
    \A k \in 1..Len(change.alleles) :
        /\ change.index + k <= Len(self.alleles)
        /\ self.alleles[change.index + k] = change.alleles[k]

Touches(change, coding) ==
    \E i \in change.index..(change.index + Len(change.alleles) - 1) : i <= coding

\* new[index:index+l] = alleles for each of the changes from the k-th on, in
\* the order given, new being a copy of the alleles
RECURSIVE ApplyInOrder(_, _, _)
ApplyInOrder(new, changes, k) ==
    IF k > Len(changes) THEN new
    ELSE ApplyInOrder(setslice(new, changes[k].index, Len(changes[k].alleles),
                               changes[k].alleles),
                      changes, k + 1)

\* self.derive(changes), self being gene 1
Derive(changes) ==
    /\ LET d == derive(genes[1], changes)
           K == 1..Len(changes)
       IN  /\ genes' = [genes EXCEPT ![1] = d.self, ![2] = d.gene]
           /\ lastDerive' =
                 [outcome |-> d.outcome,
                  before  |-> genes[1],
                  cached  |-> {<<e[2], e[3]>> : e \in {c \in called : c[1] = 1}},
                  noop    |-> \A k \in K : IsNoop(genes[1], changes[k]),
                  tail    |-> \A k \in K : changes[k].index > genes[1].coding,
                  touch   |-> \E k \in K : Touches(changes[k], genes[1].coding),
                  hits    |-> \E k \in K :
                                 /\ Touches(changes[k], genes[1].coding)
                                 /\ ~IsNoop(genes[1], changes[k]),
                  inorder |-> ApplyInOrder(genes[1].alleles, changes, 1)
                              = IF d.outcome = "new" THEN d.gene.alleles
                                ELSE genes[1].alleles]
    /\ UNCHANGED <<memos, ctor, nCalls, called, lastCall, popVars>>

(***************************************************************************)
(* Population                                                              *)
(***************************************************************************)
\* no gene exists (the population specification)
NoKarvaGene ==
    /\ ctor = ""
    /\ genes = [g \in GeneIds |-> NoGene]
    /\ memos = [m \in MemoIds |-> {}]
    /\ nCalls = 0
    /\ called = {}
    /\ lastCall = NoCall
    /\ lastDerive = NoDerive

\* [i for _, i in izip(xrange(size), cls.generate(head, genes, linker))]:
\* chromosome k is the k-th the factory yields; the list stops at the
\* shorter of xrange(size) and the factory's sequence of n chromosomes
izip_generate(sz, n) == [k \in 1..Min(sz, n) |-> k]

Population__init__no_check(sz, n, fit) ==
    /\ size = sz
    /\ produced = n
    /\ fitness = fit
    /\ age = 1
    /\ population = izip_generate(sz, n)
    /\ _next_pop = [k \in 1..sz |-> 0]
    /\ pop = "ok"
    /\ nCycles = 0
    /\ lastCycle = NoCycle
    /\ buffers = [population |-> 1, _next_pop |-> 2]
    /\ lastSolve = NoSolve

\* Population.__init__(cls, size, ...) with a factory that yields n
\* chromosomes of the fitness values fit.  len(self.population[0]) raises
\* IndexError on the empty list, turned into ValueError.  The header string
\* is for display only and is left out.
Population__init__(sz, n, fit) ==
    /\ size = sz
    /\ produced = n
    /\ fitness = fit
    /\ age = 1
    /\ population = izip_generate(sz, n)
    /\ _next_pop = [k \in 1..sz |-> 0]
    /\ pop = IF Len(izip_generate(sz, n)) = 0 THEN "ValueError" ELSE "ok"
    /\ nCycles = 0
    /\ lastCycle = NoCycle
    /\ buffers = [population |-> 1, _next_pop |-> 2]
    /\ lastSolve = NoSolve

best_min(p) ==
    p[CHOOSE i \in 1..Len(p) :
          /\ \A j \in 1..Len(p) : fitness[p[j]] >= fitness[p[i]]
          /\ \A j \in 1..(i - 1) : fitness[p[j]] > fitness[p[i]]]

best_last(p) ==
    p[CHOOSE i \in 1..Len(p) :
          /\ \A j \in 1..Len(p) : fitness[p[j]] <= fitness[p[i]]
          /\ \A j \in (i + 1)..Len(p) : fitness[p[j]] < fitness[p[i]]]

\* max(self.population, key=attrgetter('fitness')): the first chromosome, in
\* list order, no other chromosome of the list is fitter than
best(p) ==
    p[CHOOSE i \in 1..Len(p) :
          /\ \A j \in 1..Len(p) : fitness[p[j]] <= fitness[p[i]]
          /\ \A j \in 1..(i - 1) : fitness[p[j]] < fitness[p[i]]]

\* self._next_pop, self.population = self.population, self._next_pop: each
\* attribute now refers to the list object the other referred to
swap(b) == [population |-> b._next_pop, _next_pop |-> b.population]

\* Population.cycle().  _next_pop[i] = ... raises IndexError at the first i
\* past the end of the scratch list; the slots before it are already
\* written, the swap and the age increment are not reached.
cycle ==
    /\ pop = "ok"
    /\ nCycles < MaxCycles
    /\ nCycles' = nCycles + 1
    /\ LET n    == Len(_next_pop)
           hist == [best |-> best(population), population |-> population,
                    age |-> age, buffers |-> buffers]
       IN  \E choice \in [1..(Min(size, n) - 1) ->
                            {population[k] : k \in 1..Len(population)}] :
               LET filled == [k \in 1..n |->
                                IF k = 1 THEN best(population)
                                ELSE IF k <= size THEN choice[k - 1]
                                ELSE _next_pop[k]]
               IN  IF size > n
                   THEN /\ _next_pop' = filled
                        /\ lastCycle' = [outcome |-> "IndexError"] @@ hist
                        /\ UNCHANGED <<population, age, buffers>>
                   ELSE /\ _next_pop' = population
                        /\ population' = filled
                        /\ buffers' = swap(buffers)
                        /\ age' = age + 1
                        /\ lastCycle' = [outcome |-> "done"] @@ hist
    /\ UNCHANGED <<pop, size, produced, fitness, lastSolve, geneVars>>

\* Population.solve(generations): the body is the docstring and pass, so the
\* call returns with nothing cycled
solve(generations) ==
    /\ pop = "ok"
    /\ lastSolve.outcome = "none"
    /\ lastSolve' = [outcome |-> "done", generations |-> generations,
                     age |-> age]
    /\ UNCHANGED <<pop, size, produced, fitness, population, _next_pop, age,
                   nCycles, lastCycle, buffers, geneVars>>

(***************************************************************************)
(* Specifications                                                          *)
(***************************************************************************)
\* SpecKarva: a gene built from any allele list up to MaxLen, then called
InitKarva ==
    \E alleles \in SeqsOf(Symbols, 0..MaxLen) :
        \E head \in 0..Len(alleles) : __init__(alleles, head)

Evaluate == \E obj \in Contexts : nCalls = 0 /\ Call(1, obj)

NextKarva == Evaluate

SpecKarva == InitKarva /\ [][NextKarva]_vars

\* Spec: a gene of three alleles, called and derived from
GeneSymbols == {"inc", "x", "y"}

EditSymbols == {"inc", "x", "y"}

\* the contexts the gene is called with: two objects with equal attributes
GeneContexts == {"A", "B"}

\* the changes derive is given: every point mutation to a symbol of
\* EditSymbols, and two block replacements at the first and at the last index
\* (the latter reaches past the end of the gene)
Edits(self) ==
    [index : 0..(Len(self.alleles) - 1), alleles : SeqsOf(EditSymbols, {1})]
    \cup [index : {0, Len(self.alleles) - 1},
          alleles : {<<"x", "x">>, <<"inc", "x">>}]

\* the genes a chromosome of head length 1 generates over symbols of arity
\* at most 1: one head allele, two tail alleles, no function in the tail
Init ==
    \E alleles \in SeqsOf(GeneSymbols, {3}) :
        /\ \A k \in 2..3 : ~callable(alleles[k])
        /\ __init__(alleles, 1)

CallGene == \E g \in GeneIds, obj \in GeneContexts : Call(g, obj)

DeriveGene ==
    /\ genes[1].live
    /\ lastDerive.outcome = "none"
    /\ \E changes \in SeqsOf(Edits(genes[1]), 0..MaxEdits) : Derive(changes)

Next == CallGene \/ DeriveGene

Spec == Init /\ [][Next]_vars

\* SpecDerive: a gene built from any allele list up to MaxLen over functions
\* of arity 2 and 1 and a terminal, its head the half of its length, derived
\* from once.  The gene a chain of derive calls reaches holds alleles and a
\* coding; with the coding its alleles give, it is one of these genes.
DeriveSymbols == {"sub", "inc", "x"}

\* the changes: every point mutation to a function of arity 2 or to another
\* terminal, and a block replacement that reaches past the end of the gene
DeriveEdits(self) ==
    [index : 0..(Len(self.alleles) - 1), alleles : {<<"sub">>, <<"y">>}]
    \cup [index : {Len(self.alleles) - 1}, alleles : {<<"inc", "y">>}]

InitDerive ==
    \E alleles \in SeqsOf(DeriveSymbols, 0..MaxLen) :
        __init__(alleles, Len(alleles) \div 2)

DeriveOnce ==
    /\ genes[1].live
    /\ lastDerive.outcome = "none"
    /\ \E changes \in SeqsOf(DeriveEdits(genes[1]), 0..MaxEdits) :
           Derive(changes)

NextDerive == DeriveOnce

SpecDerive == InitDerive /\ [][NextDerive]_vars

\* SpecPop: a population of up to MaxSize chromosomes, cycled
Fitness == {1, 2}

InitPop ==
    /\ NoKarvaGene
    /\ \E sz \in 0..MaxSize, n \in 0..(MaxSize + 1) :
           \E fit \in [1..Min(sz, n) -> Fitness] : Population__init__(sz, n, fit)

NextPop == cycle

SpecPop == InitPop /\ [][NextPop]_vars

\* SpecSolve: a population of up to MaxSize chromosomes of one fitness,
\* cycled, with one solve call before, between or after the cycle calls
InitSolve ==
    /\ NoKarvaGene
    /\ \E sz \in 0..MaxSize, n \in 0..(MaxSize + 1) :
           Population__init__(sz, n, [k \in 1..Min(sz, n) |-> 1])

Solve == \E generations \in 1..MaxGenerations : solve(generations)

NextSolve == cycle \/ Solve

SpecSolve == InitSolve /\ [][NextSolve]_vars

(***************************************************************************)
(* Karva notation, stated without the code's loops                         *)
(***************************************************************************)
ArityOf(allele) == IF callable(allele) THEN co_argcount(allele) ELSE 0

\* the sum of the arities of alleles[0..c]
RECURSIVE SumArity(_, _)
SumArity(alleles, c) ==
    IF c < 0 THEN 0 ELSE ArityOf(alleles[c + 1]) + SumArity(alleles, c - 1)

\* alleles[0..c] is a structurally complete expression
Complete(alleles, c) == c + 1 = 1 + SumArity(alleles, c)

\* c is the smallest index with a complete prefix
IsCoding(alleles, c) ==
    /\ c \in 0..(Len(alleles) - 1)
    /\ Complete(alleles, c)
    /\ \A b \in 0..(c - 1) : ~Complete(alleles, b)

\* tail free of functions, arities satisfied within the alleles
WellFormed(alleles, head) ==
    /\ \A k \in (head + 1)..Len(alleles) : ~callable(alleles[k])
    /\ \E c \in 0..(Len(alleles) - 1) : Complete(alleles, c)

\* the value of the subtree rooted at allele i of the tree read breadth-first:
\* the children of allele i are the ArityOf(i) alleles that follow the
\* children of the alleles before i, the root's first child being allele 1
RECURSIVE TreeValue(_, _, _)
TreeValue(alleles, obj, i) ==
    LET a     == alleles[i + 1]
        child == 1 + SumArity(alleles, i - 1)
    IN  IF callable(a)
        THEN apply(a, [k \in 1..co_argcount(a) |->
                          TreeValue(alleles, obj, child + k - 1)])
        ELSE IF isinstance_str(a) THEN getattr(obj, a)
        ELSE number(a)

DefinesAll(obj, alleles) ==
    \A k \in 1..Len(alleles) :
        isinstance_str(alleles[k]) => hasattr(obj, alleles[k])

\* the chromosomes of a list, and the greatest fitness among them
Members(p) == {p[k] : k \in 1..Len(p)}

MaxFitness(p) ==
    CHOOSE f \in {fitness[c] : c \in Members(p)} :
        \A c \in Members(p) : fitness[c] <= f

(***************************************************************************)
(* Claims                                                                  *)
(***************************************************************************)
\* C1 (SpecKarva): calling a well-formed gene with a context that defines all
\* of its terminal names returns the value of the expression tree decoded
\* breadth-first from allele 0, each function applied to its children from
\* left to right.
C1_CallReturnsTreeValue ==
    (/\ lastCall.outcome # "none"
     /\ ~lastCall.hit
     /\ WellFormed(genes[1].alleles, genes[1].head)
     /\ DefinesAll(lastCall.obj, genes[1].alleles))
    => /\ lastCall.outcome = "value"
       /\ lastCall.value = TreeValue(genes[1].alleles, lastCall.obj, 0)

\* sub(inc(y), x) = 8 - 4 with x = 4, y = 7: a depth-first reading gives
\* sub(inc(x), y) = 5 - 7
C1_Witness ==
    /\ lastCall.outcome = "value"
    /\ lastCall.obj = "C"
    /\ genes[1].alleles = <<"sub", "inc", "x", "y">>
    /\ genes[1].head = 2
    /\ lastCall.value = 4

\* C2 (SpecKarva): for a well-formed gene, construction succeeds and coding is
\* the smallest index c such that the number of alleles of alleles[0..c] is
\* 1 plus the sum of the arities of its functions.
C2_CodingIsSmallestCompletePrefix ==
    WellFormed(genes[1].alleles, genes[1].head)
    => /\ ctor = "ok"
       /\ genes[1].live
       /\ IsCoding(genes[1].alleles, genes[1].coding)

C2_Witness ==
    /\ genes[1].live
    /\ WellFormed(genes[1].alleles, genes[1].head)
    /\ Len(genes[1].alleles) = 4
    /\ genes[1].alleles[1] = "sub"
    /\ genes[1].coding = 2

\* C3 (Spec): a call of a gene with a context the gene has already returned a
\* value for returns that value from the memo: no terminal is resolved and
\* no function is applied.
C3_SecondCallIsServedFromMemo ==
    lastCall.again
    => /\ lastCall.hit
       /\ lastCall.outcome = "value"
       /\ lastCall.value = lastCall.first
       /\ lastCall.lookups = 0
       /\ lastCall.applied = 0

C3_Witness ==
    /\ lastCall.again
    /\ lastCall.hit
    /\ genes[lastCall.gene].alleles[1] = "inc"
    /\ lastCall.value = 3

\* C4 (Spec): the memo is keyed by the identity of the context.  The first
\* call with a context B (not yet evaluated on the gene, nor on a gene whose
\* memo dictionary it holds) is a miss and evaluates afresh, although the
\* gene has returned a value for another context with the same attributes.
C4_MemoKeyedByIdentity ==
    (/\ lastCall.outcome # "none"
     /\ lastCall.twin
     /\ ~lastCall.again
     /\ ~lastCall.shared)
    => /\ ~lastCall.hit
       /\ lastCall.lookups > 0

C4_Witness ==
    /\ lastCall.twin
    /\ ~lastCall.again
    /\ ~lastCall.shared
    /\ ~lastCall.hit
    /\ lastCall.outcome = "value"
    /\ lastCall.applied > 0

\* C5 (Spec): derive with changes that each equal the alleles in place
\* returns the gene it was called on, and makes no other gene.
C5_NoopDeriveReturnsSelf ==
    (lastDerive.outcome # "none" /\ lastDerive.noop)
    => /\ lastDerive.outcome = "self"
       /\ ~genes[2].live

C5_Witness ==
    /\ lastDerive.outcome = "self"
    /\ lastDerive.noop
    /\ lastDerive.touch

\* C6 (Spec): when every change starts past coding and one of them changes
\* an allele, derive returns a new gene with the coding of its parent, and a
\* call of it with a context the parent had returned a value for when derive
\* was called returns that value from the memo, nothing being evaluated.
C6_TailDeriveKeepsCodingAndMemo ==
    (lastDerive.outcome # "none" /\ lastDerive.tail /\ ~lastDerive.noop)
    => /\ lastDerive.outcome = "new"
       /\ genes[2].live
       /\ genes[2].coding = lastDerive.before.coding
       /\ \A e \in lastDerive.cached :
              (lastCall.gene = 2 /\ lastCall.obj = e[1])
              => /\ lastCall.hit
                 /\ lastCall.outcome = "value"
                 /\ lastCall.value = e[2]
                 /\ lastCall.lookups = 0
                 /\ lastCall.applied = 0

C6_Witness ==
    /\ lastDerive.outcome = "new"
    /\ lastDerive.tail
    /\ genes[2].alleles # genes[1].alleles
    /\ lastCall.gene = 2
    /\ ~lastCall.again
    /\ lastCall.hit
    /\ \E e \in lastDerive.cached : e[1] = lastCall.obj

\* C7 as claimed (Spec): when derive returns a new gene and one of the changes
\* covers an index <= coding, the new gene's coding is the one its alleles
\* give and its first call with a context cached on the parent evaluates
\* afresh.
C7_Original ==
    (/\ lastDerive.outcome = "new"
     /\ lastDerive.touch)
    => /\ IsCoding(genes[2].alleles, genes[2].coding)
       /\ (/\ lastCall.gene = 2
           /\ ~lastCall.again
           /\ \E e \in lastDerive.cached : e[1] = lastCall.obj)
          => ~lastCall.hit

\* C7 amended (Spec): when derive returns a new gene and one of the changes
\* covers an index <= coding and differs from the alleles in place, the new
\* gene's coding is the one its alleles give and its first call with a
\* context cached on the parent evaluates afresh.
C7_ChangedCodingRegionClearsMemo ==
    (/\ lastDerive.outcome = "new"
     /\ lastDerive.hits)
    => /\ IsCoding(genes[2].alleles, genes[2].coding)
       /\ (/\ lastCall.gene = 2
           /\ ~lastCall.again
           /\ \E e \in lastDerive.cached : e[1] = lastCall.obj)
          => ~lastCall.hit

C7_Witness ==
    /\ lastDerive.outcome = "new"
    /\ lastDerive.hits
    /\ genes[2].coding # genes[1].coding
    /\ lastCall.gene = 2
    /\ ~lastCall.again
    /\ ~lastCall.hit
    /\ lastCall.outcome = "value"
    /\ \E e \in lastDerive.cached : e[1] = lastCall.obj

\* C8 (SpecPop): constructing a Population raises ValueError, and leaves no
\* population to cycle, when size is zero or the factory yields nothing; with
\* a positive size and a factory of at least size chromosomes it succeeds,
\* with age 1.
C8_EmptyPopulationRejected ==
    /\ (size = 0 \/ produced = 0)
       => (pop = "ValueError" /\ nCycles = 0 /\ lastCycle = NoCycle)
    /\ (size > 0 /\ produced >= size)
       => (pop = "ok" /\ (nCycles = 0 => age = 1))

C8_Witness ==
    /\ pop = "ValueError"
    /\ size > 0
    /\ produced = 0

\* C9 as claimed (SpecPop): a constructed population holds exactly size
\* chromosomes, none a placeholder, after construction and after every
\* cycle, and every cycle completes.
C9_Original ==
    pop = "ok"
    => /\ Len(population) = size
       /\ \A k \in 1..Len(population) : population[k] # 0
       /\ lastCycle.outcome # "IndexError"

\* C10 (SpecPop): after a cycle, slot 0 of the population is the chromosome
\* best returned before it: the first chromosome, in the order of the old
\* population, that no chromosome of the old population is fitter than.
IsFirstMax(p, c) ==
    \E i \in 1..Len(p) :
        /\ p[i] = c
        /\ \A j \in 1..Len(p) : fitness[p[j]] <= fitness[c]
        /\ \A j \in 1..(i - 1) : fitness[p[j]] < fitness[c]

C10_BestKeptInSlotZero ==
    lastCycle.outcome = "done"
    => /\ population[1] = lastCycle.best
       /\ IsFirstMax(lastCycle.population, population[1])
       /\ age = lastCycle.age + 1

C10_Witness ==
    /\ lastCycle.outcome = "done"
    /\ \E i, j \in 1..Len(lastCycle.population) :
           /\ i < j
           /\ lastCycle.population[i] # lastCycle.population[j]
           /\ lastCycle.population[i] = population[1]
           /\ fitness[lastCycle.population[j]] = fitness[population[1]]

\* C11 as claimed (SpecSolve): age is 1 after construction and 1 + k after k
\* cycle calls, whatever solve calls come between them.
C11_Original == pop = "ok" => age = 1 + nCycles

\* C12 as claimed (Spec): the alleles of the gene derive returns are those
\* the edits give when applied left to right to one copy of the parent's
\* alleles, overlapping edits included.
C12_Original ==
    lastDerive.outcome \in {"self", "new"} => lastDerive.inorder

\* C13 as claimed (SpecKarva): a call resolves against the context only the
\* terminal names inside the coding region (indices 0..coding); a name in
\* the remainder of the gene is never looked up, and the call does not fail
\* when the context lacks it.
C13_Original ==
    (/\ lastCall.outcome # "none"
     /\ ~lastCall.hit
     /\ DefinesAll(lastCall.obj,
                   SubSeq(genes[1].alleles, 1, genes[1].coding + 1)))
    => /\ lastCall.outcome # "AttributeError"
       /\ lastCall.lookups
          = Cardinality({k \in 1..(genes[1].coding + 1) :
                           isinstance_str(genes[1].alleles[k])})

\* C14 (Spec): derive leaves the gene it is called on as it was: whatever
\* the changes and whatever derive returned or raised, the parent holds the
\* alleles, head and coding it held, its memo attribute refers to the
\* dictionary it referred to, and every result cached then is cached still.
C14_DeriveLeavesParent ==
    lastDerive.outcome # "none"
    => /\ genes[1].alleles = lastDerive.before.alleles
       /\ genes[1].head = lastDerive.before.head
       /\ genes[1].coding = lastDerive.before.coding
       /\ genes[1].live = lastDerive.before.live
       /\ lastDerive.before.memo # 0
          => genes[1].memo = lastDerive.before.memo
       /\ \A e \in lastDerive.cached :
              <<memo_key(e[1]), e[2]>> \in MemoOf(1)

\* a derive that gave the new gene a cleared cache and another coding, from
\* a parent that had results cached
C14_Witness ==
    /\ lastDerive.outcome = "new"
    /\ lastDerive.hits
    /\ lastDerive.cached # {}
    /\ genes[2].memo = 0
    /\ genes[2].coding # lastDerive.before.coding
    /\ genes[2].alleles # lastDerive.before.alleles

\* C15 (SpecDerive): the coding a gene holds, whether set at construction,
\* recomputed by derive or kept by derive from the parent, is an index of
\* its alleles and is the coding _find_coding computes from the alleles the
\* gene holds now: the smallest index with a complete prefix.
C15_CodingIsFresh ==
    \A g \in GeneIds :
        genes[g].live
        => /\ 0 <= genes[g].coding
           /\ genes[g].coding < Len(genes[g].alleles)
           /\ ~_find_coding(genes[g].alleles).err
           /\ _find_coding(genes[g].alleles).coding = genes[g].coding
           /\ IsCoding(genes[g].alleles, genes[g].coding)

\* derive skipped the recomputation: every change lay past coding, and the
\* well-formed gene returned holds other alleles and the parent's coding
C15_Witness ==
    /\ lastDerive.outcome = "new"
    /\ lastDerive.tail
    /\ WellFormed(genes[1].alleles, genes[1].head)
    /\ WellFormed(genes[2].alleles, genes[2].head)
    /\ genes[2].alleles # genes[1].alleles
    /\ genes[2].coding = genes[1].coding
    /\ genes[2].coding >= 2

\* C16 (SpecPop): every chromosome of the population after a cycle is a
\* chromosome of the population before it, and the greatest fitness in the
\* population is the same before and after.
C16_NextGenerationFromCurrent ==
    lastCycle.outcome # "none"
    => /\ Members(population) \subseteq Members(lastCycle.population)
       /\ MaxFitness(population) = MaxFitness(lastCycle.population)

\* a cycle that made a generation of three without one of the chromosomes
\* of the old one, a less fit chromosome in slot 1
C16_Witness ==
    /\ lastCycle.outcome = "done"
    /\ Len(population) >= 3
    /\ Members(population) # Members(lastCycle.population)
    /\ fitness[population[2]] < fitness[population[1]]
    /\ population[3] # population[2]

\* C17 as claimed (SpecPop): the two lists are swapped, not copied: after
\* each cycle _next_pop is the list object population was before it, holding
\* what it held then, population is the list object _next_pop was, and the
\* two are never one list object.
C17_Original ==
    /\ pop = "ok" => buffers.population # buffers._next_pop
    /\ lastCycle.outcome # "none"
       => /\ buffers._next_pop = lastCycle.buffers.population
          /\ _next_pop = lastCycle.population
          /\ buffers.population = lastCycle.buffers._next_pop

\* C18 as claimed (SpecSolve): solve(generations) cycles the population that
\* many times: after solve(g) on a population no chromosome of which is
\* solved, age has advanced by g.
C18_Original ==
    lastSolve.outcome = "done"
    => age >= lastSolve.age + lastSolve.generations

\* C19 as claimed (Spec): whatever calls and derive came before, a call of
\* a gene with a context ends as the call of a gene newly constructed from
\* the same alleles and never called would: with the same value, or with
\* AttributeError for a name the context lacks.
C19_Original ==
    lastCall.outcome # "none"
    => LET alleles == genes[lastCall.gene].alleles
           fresh   == call_body(alleles, _find_coding(alleles).coding,
                                lastCall.obj)
       IN  /\ lastCall.outcome = fresh.outcome
           /\ lastCall.value = fresh.value

\* C19, the values only (Spec): a call that returns a value and whose fresh
\* counterpart returns a value returns the same value
C19_ValuesAgree ==
    lastCall.outcome = "value"
    => LET alleles == genes[lastCall.gene].alleles
           fresh   == call_body(alleles, _find_coding(alleles).coding,
                                lastCall.obj)
       IN  fresh.outcome = "value" => lastCall.value = fresh.value

\* C20 (Spec): when derive returns a gene other than the one it was called
\* on, the alleles of that gene differ from the parent's in some position,
\* whatever the changes, overlapping ones included; when it returns the
\* parent itself, the alleles are, trivially, the parent's.
C20_NewGeneDiffers ==
    /\ lastDerive.outcome = "new"
       => /\ genes[2].live
          /\ genes[2].alleles # lastDerive.before.alleles
          /\ \/ Len(genes[2].alleles) # Len(lastDerive.before.alleles)
             \/ \E k \in 1..Len(genes[2].alleles) :
                    genes[2].alleles[k] # lastDerive.before.alleles[k]
    /\ lastDerive.outcome = "self"
       => /\ ~genes[2].live
          /\ genes[1].alleles = lastDerive.before.alleles

\* overlapping changes: the later change was compared with the parent's
\* alleles, so the gene returned is not what the changes give in order, and
\* it differs from the parent all the same
C20_Witness ==
    /\ lastDerive.outcome = "new"
    /\ ~lastDerive.inorder
    /\ genes[2].alleles # lastDerive.before.alleles
    /\ Len(genes[2].alleles) = Len(lastDerive.before.alleles)

====
